---- MODULE Spec2Model ----
(***************************************************************************)
(* markdown-it-task-lists-ts: the 'github-task-lists' core rule and its    *)
(* registration function taskLists (src/markdown-it-task-lists.ts).        *)
(*                                                                         *)
(* Strings are sequences of one-character strings, so that indexOf and     *)
(* slice are computed and not assumed. Token indices are 1-based here:     *)
(* tokens[i] of the source is tokens[i + 1] of the model.                  *)
(***************************************************************************)
EXTENDS Naturals, Sequences, FiniteSets, TLC

VARIABLES disableCheckboxes, useLabelWrapper, useLabelAfter, rules, pc, via, tokens, source, tests

vars == <<disableCheckboxes, useLabelWrapper, useLabelAfter, rules, pc, via, tokens, source, tests>>

(***************************************************************************)
(* Bounds of the explored inputs.                                          *)
(***************************************************************************)
\* inline tokens of a rendered document
MaxInlines == 2
\* nesting depth of bullet lists in a rendered document
MaxDepth == 2

\* the same two bounds for the documents rendered under every option set
OptionInlines == 2
OptionDepth == 1

\* outcomes of Math.random() that the model distinguishes
RandomValues == {1, 2}

Range(s) == {s[n] : n \in 1..Len(s)}

(***************************************************************************)
(* Tokens (markdown-it Token, TaskListToken).                              *)
(***************************************************************************)
Token(type, tag) == [type |-> type, tag |-> tag, content |-> <<>>, children |-> <<>>, attrs |-> <<>>]

TextToken(str) == [type |-> "text", content |-> str]

\* an inline token as markdown-it's inline rule leaves it: one text child
InlineToken(str) == [type |-> "inline", tag |-> "", content |-> str, children |-> <<TextToken(str)>>, attrs |-> <<>>]

Paragraph(str) == <<Token("paragraph_open", "p"), InlineToken(str), Token("paragraph_close", "p")>>

\* inline contents of the explored documents
Unchecked == <<"[", " ", "]", " ", "a">>
CheckedLower == <<"[", "x", "]", " ", "b">>
CheckedUpper == <<"[", "X", "]", " ", "c">>
Repeated == <<"[", " ", "]", " ", "[", " ", "]", " ", "x">>
Malformed == <<"[", " ", "]", "d">>

RECURSIVE OpenAt(_, _)
\* the indices of the list and item tokens opened and not yet closed in toks[1..n], outermost first
OpenAt(toks, n) ==
    IF n = 0 THEN <<>>
    ELSE LET open == OpenAt(toks, n - 1) IN
         IF toks[n].type \in {"bullet_list_open", "list_item_open"} THEN Append(open, n)
         ELSE IF toks[n].type \in {"bullet_list_close", "list_item_close"}
              THEN SubSeq(open, 1, Len(open) - 1)
         ELSE open

NumInlines(toks) == Cardinality({n \in 1..Len(toks) : toks[n].type = "inline"})

\* the type of the innermost open block of a token stream under construction
Innermost(toks) ==
    LET open == OpenAt(toks, Len(toks)) IN
    IF open = <<>> THEN "root" ELSE toks[open[Len(open)]].type

ListDepth(toks) ==
    LET open == OpenAt(toks, Len(toks)) IN
    Cardinality({n \in 1..Len(open) : toks[open[n]].type = "bullet_list_open"})

(***************************************************************************)
(* Token.attrIndex / Token.attrJoin of markdown-it. An attribute value is  *)
(* the sequence of its space-separated words.                              *)
(***************************************************************************)
attrIndex(token, name) ==
    IF \E n \in 1..Len(token.attrs) : token.attrs[n][1] = name
    THEN CHOOSE n \in 1..Len(token.attrs) :
            /\ token.attrs[n][1] = name
            /\ \A m \in 1..(n - 1) : token.attrs[m][1] # name
    ELSE 0

attrJoin(token, name, value) ==
    LET idx == attrIndex(token, name) IN
    IF idx = 0
    THEN [token EXCEPT !.attrs = Append(@, <<name, <<value>>>>)]
    ELSE [token EXCEPT !.attrs[idx] = <<name, Append(@[2], value)>>]

(***************************************************************************)
(* Helpers of the rule.                                                    *)
(***************************************************************************)
\* str.indexOf(prefix) === 0
StartsWith(str, prefix) == Len(str) >= Len(prefix) /\ SubSeq(str, 1, Len(prefix)) = prefix

startsWithTodoMarkdown(str) ==
    \/ StartsWith(str, <<"[", " ", "]", " ">>)
    \/ StartsWith(str, <<"[", "x", "]", " ">>)
    \/ StartsWith(str, <<"[", "X", "]", " ">>)

isListItem(token) == token.type = "list_item_open"

isParagraph(token) == token.type = "paragraph_open"

isInline(token) == token.type = "inline"

hasOpenOrCloseTag(token, tag) ==
    token.tag = tag /\ (token.type = "paragraph_open" \/ token.type = "paragraph_close")

(***************************************************************************)
(* TaskListOptions. Every field holds a JavaScript value written as a      *)
(* string; "undefined" is a field the caller left out. defined = FALSE is  *)
(* a call of taskLists without the options argument.                       *)
(***************************************************************************)
NoOptions ==
    [defined |-> FALSE, enabled |-> "undefined", label |-> "undefined", labelAfter |-> "undefined",
     listClass |-> "undefined", itemClass |-> "undefined", checkboxClass |-> "undefined",
     labelClass |-> "undefined", tiptapCompatible |-> "undefined"]

EmptyOptions == [NoOptions EXCEPT !.defined = TRUE]

\* { enabled: true }
OnlyEnabled == [EmptyOptions EXCEPT !.enabled = "true"]

\* { label: true, labelAfter: true }
LabelAfter == [EmptyOptions EXCEPT !.label = "true", !.labelAfter = "true"]

\* { label: false, listClass: 'todo-list', itemClass: 'todo-item', checkboxClass: 'todo-checkbox' }
PlainCustom ==
    [EmptyOptions EXCEPT !.label = "false", !.listClass = "todo-list", !.itemClass = "todo-item",
                         !.checkboxClass = "todo-checkbox"]

\* { enabled: true, label: true, tiptapCompatible: true }, the README's Tiptap example
Tiptap == [EmptyOptions EXCEPT !.enabled = "true", !.label = "true", !.tiptapCompatible = "true"]

\* JavaScript truthiness of an option value: !!v
Truthy(v) == v # "undefined" /\ v # "false"

\* v ?? d
Coalesce(v, d) == IF v = "undefined" THEN d ELSE v

defaultClasses ==
    [list |-> "contains-task-list", item |-> "task-list-item",
     checkbox |-> "task-list-item-checkbox", label |-> "task-list-item-label"]

\* the module-level flags as first evaluated
DefaultFlags == [disableCheckboxes |-> TRUE, useLabelWrapper |-> TRUE, useLabelAfter |-> FALSE]

\* the flags a call taskLists(md, options) leaves, from the flags it finds
FlagsAfter(flags, options) ==
    IF options.defined
    THEN [disableCheckboxes |-> ~Truthy(options.enabled),
          useLabelWrapper |-> Truthy(options.label),
          useLabelAfter |-> Truthy(options.labelAfter)]
    ELSE flags

\* const classes = { list: options?.listClass ?? defaultClasses.list, ... }
Classes(options) ==
    [list |-> Coalesce(options.listClass, defaultClasses.list),
     item |-> Coalesce(options.itemClass, defaultClasses.item),
     checkbox |-> Coalesce(options.checkboxClass, defaultClasses.checkbox),
     label |-> Coalesce(options.labelClass, defaultClasses.label)]

(***************************************************************************)
(* The transformation of one matched inline token.                         *)
(***************************************************************************)
\* a slice that also drops the space after the marker
Slice4(str) == SubSeq(str, 5, Len(str))

\* str.slice(3)
Slice3(str) == SubSeq(str, 4, Len(str))

\* `task-item-${Math.ceil(Math.random() * (10000 * 1000) - 1000)}`
TaskItemId(random) == "task-item-" \o ToString(random)

\* checkbox.content, the template literal as the sequence of its pieces
CheckboxContent(classes, disabled, wrapper, after, checked, id) ==
    LET disabledAttr == IF disabled THEN " disabled " ELSE ""
        checkedAttr == IF checked THEN "checked=\"\" " ELSE ""
        input == <<"<input class=\"", classes.checkbox, "\" ", disabledAttr,
                   " type=\"checkbox\" ", checkedAttr>>
        label == <<"<label class=\"", classes.label, "\" for=\"", id, "\">">>
        closeLabel == <<"</label>">>
    IN  IF wrapper
        THEN IF after
             THEN input \o <<" id=\"", id, "\">">> \o label \o closeLabel
             ELSE label \o input \o <<" id=\"", id, "\">">> \o closeLabel
        ELSE input \o <<">">>

RECURSIVE ScanBack(_, _, _)
\* while (current >= 0 && tokens[current].type !== type) current--;  0 is the source's -1
ScanBack(toks, current, type) ==
    IF current >= 1 /\ toks[current].type # type
    THEN ScanBack(toks, current - 1, type)
    ELSE current

\* the class propagation to the nearest list item and bullet list found backward from k
JoinClasses(toks, k, classes) ==
    LET item == ScanBack(toks, k, "list_item_open")
        toks1 == IF item >= 1
                 THEN [toks EXCEPT ![item] = attrJoin(@, "class", classes.item)]
                 ELSE toks
        list == ScanBack(toks1, item, "bullet_list_open")
    IN  IF list >= 1
        THEN [toks1 EXCEPT ![list] = attrJoin(@, "class", classes.list)]
        ELSE toks1

\* the body of the k loop for a token that matched, with the given Math.random() outcome
TransformWith(toks, k, env, random) ==
    LET token == toks[k]
        checked == StartsWith(token.content, <<"[", "x", "]">>)
                   \/ StartsWith(token.content, <<"[", "X", "]">>)
        checkbox == [type |-> "html_inline",
                     content |-> CheckboxContent(env.classes, env.disableCheckboxes,
                                                 env.useLabelWrapper, env.useLabelAfter,
                                                 checked, TaskItemId(random))]
        child0 == [token.children[1] EXCEPT !.content = Slice3(@)]
        changed == [token EXCEPT !.children = <<checkbox, child0>> \o Tail(@),
                                 !.content = Slice3(@)]
    IN  IF Len(token.children) > 0
        THEN JoinClasses([toks EXCEPT ![k] = changed], k, env.classes)
        ELSE toks

\* the outcomes of transforming tokens[k]: Math.random() is called only for a label
Transform(toks, k, env) ==
    IF env.useLabelWrapper /\ Len(toks[k].children) > 0
    THEN {TransformWith(toks, k, env, random) : random \in RandomValues}
    ELSE {TransformWith(toks, k, env, 1)}

(***************************************************************************)
(* The core rule 'github-task-lists'. A scan state is the token array and  *)
(* the count of startsWithTodoMarkdown tests made on each token; a scan    *)
(* yields the set of scan states it can end in.                            *)
(***************************************************************************)
RECURSIVE ScanK(_, _, _)
\* for (let k = j + 1; k < tokens.length; k++)
ScanK(st, k, env) ==
    IF k > Len(st.toks) THEN {st}
    ELSE IF hasOpenOrCloseTag(st.toks[k], "p") THEN {st}
    ELSE IF ~isInline(st.toks[k]) THEN ScanK(st, k + 1, env)
    ELSE LET tested == [st EXCEPT !.tests[k] = @ + 1] IN
         IF ~startsWithTodoMarkdown(st.toks[k].content)
         THEN ScanK(tested, k + 1, env)
         ELSE UNION {ScanK([tested EXCEPT !.toks = out], k + 1, env) :
                        out \in Transform(st.toks, k, env)}

RECURSIVE ScanJ(_, _, _)
\* for (let j = i + 1; j < tokens.length; j++)
ScanJ(st, j, env) ==
    IF j > Len(st.toks) THEN {st}
    ELSE IF st.toks[j].type = "list_item_close" THEN {st}
    ELSE IF ~isParagraph(st.toks[j]) THEN ScanJ(st, j + 1, env)
    ELSE UNION {ScanJ(s, j + 1, env) : s \in ScanK(st, j + 1, env)}

\* an insideList that a bullet_list_close does not reset
InsideListNoReset(token, insideList) ==
    IF token.type = "bullet_list_open" THEN TRUE ELSE insideList

\* insideList after the i loop has looked at token
InsideList(token, insideList) ==
    IF token.type = "bullet_list_open" THEN TRUE
    ELSE IF token.type = "bullet_list_close" THEN FALSE
    ELSE insideList

RECURSIVE ScanI(_, _, _, _)
\* for (let i = 0; i < tokens.length; i++)
ScanI(st, i, insideList, env) ==
    IF i > Len(st.toks) THEN {st}
    ELSE IF st.toks[i].type \in {"bullet_list_open", "bullet_list_close"}
         THEN ScanI(st, i + 1, InsideList(st.toks[i], insideList), env)
    ELSE IF ~insideList THEN ScanI(st, i + 1, insideList, env)
    ELSE IF ~isListItem(st.toks[i]) THEN ScanI(st, i + 1, insideList, env)
    ELSE UNION {ScanI(s, i + 1, insideList, env) : s \in ScanJ(st, i + 1, env)}

\* the rule applied to state.tokens under the classes of its closure and the module flags
Rule(toks, env) == ScanI([toks |-> toks, tests |-> [n \in 1..Len(toks) |-> 0]], 1, FALSE, env)

(***************************************************************************)
(* State machine: registrations, and renders. A render parses the document *)
(* into state.tokens (markdown-it's block and inline rules), runs the rule *)
(* over them and returns.                                                  *)
(***************************************************************************)
Instances == {"md1", "md2"}

Unregistered == [registered |-> FALSE, options |-> NoOptions, classes |-> defaultClasses]

Init ==
    /\ disableCheckboxes = DefaultFlags.disableCheckboxes
    /\ useLabelWrapper = DefaultFlags.useLabelWrapper
    /\ useLabelAfter = DefaultFlags.useLabelAfter
    /\ rules = [m \in Instances |-> Unregistered]
    /\ pc = "idle"
    /\ via = "none"
    /\ tokens = <<>>
    /\ source = <<>>
    /\ tests = <<>>

Flags == [disableCheckboxes |-> disableCheckboxes, useLabelWrapper |-> useLabelWrapper,
          useLabelAfter |-> useLabelAfter]

module == <<disableCheckboxes, useLabelWrapper, useLabelAfter, rules>>

\* md.use(taskLists, options) on an instance that has not registered the rule yet
Register(m, options) ==
    /\ pc = "idle"
    /\ ~rules[m].registered
    /\ disableCheckboxes' = FlagsAfter(Flags, options).disableCheckboxes
    /\ useLabelWrapper' = FlagsAfter(Flags, options).useLabelWrapper
    /\ useLabelAfter' = FlagsAfter(Flags, options).useLabelAfter
    /\ rules' = [rules EXCEPT ![m] = [registered |-> TRUE, options |-> options,
                                      classes |-> Classes(options)]]
    /\ UNCHANGED <<pc, via, tokens, source, tests>>

\* md.render(...) is called on an instance that registered the rule
Render(m) ==
    /\ pc = "idle"
    /\ rules[m].registered
    /\ pc' = "parse"
    /\ via' = m
    /\ UNCHANGED <<module, tokens, source, tests>>

\* the parser emits a paragraph with its inline token
ParseParagraph(str, maxInlines) ==
    /\ pc = "parse"
    /\ Innermost(tokens) \in {"root", "list_item_open"}
    /\ NumInlines(tokens) < maxInlines
    /\ tokens' = tokens \o Paragraph(str)
    /\ UNCHANGED <<module, pc, via, source, tests>>

\* the parser opens a bullet list and its first item
ParseListOpen(maxInlines, maxDepth) ==
    /\ pc = "parse"
    /\ Innermost(tokens) \in {"root", "list_item_open"}
    /\ NumInlines(tokens) < maxInlines
    /\ ListDepth(tokens) < maxDepth
    /\ tokens' = tokens \o <<Token("bullet_list_open", "ul"), Token("list_item_open", "li")>>
    /\ UNCHANGED <<module, pc, via, source, tests>>

\* the parser closes a list item that holds a block
ParseItemClose ==
    /\ pc = "parse"
    /\ Innermost(tokens) = "list_item_open"
    /\ tokens[Len(tokens)].type # "list_item_open"
    /\ tokens' = Append(tokens, Token("list_item_close", "li"))
    /\ UNCHANGED <<module, pc, via, source, tests>>

\* the parser opens the next item of a bullet list
ParseItemOpen(maxInlines) ==
    /\ pc = "parse"
    /\ Innermost(tokens) = "bullet_list_open"
    /\ NumInlines(tokens) < maxInlines
    /\ tokens' = Append(tokens, Token("list_item_open", "li"))
    /\ UNCHANGED <<module, pc, via, source, tests>>

\* the parser closes a bullet list
ParseListClose ==
    /\ pc = "parse"
    /\ Innermost(tokens) = "bullet_list_open"
    /\ tokens' = Append(tokens, Token("bullet_list_close", "ul"))
    /\ UNCHANGED <<module, pc, via, source, tests>>

\* the core chain reaches 'github-task-lists', registered after 'inline': one run of the rule
\* over the complete token stream, with the classes of this instance's closure and the module flags
RunRule ==
    /\ pc = "parse"
    /\ tokens # <<>>
    /\ Innermost(tokens) = "root"
    /\ \E out \in Rule(tokens, [classes |-> rules[via].classes,
                                disableCheckboxes |-> disableCheckboxes,
                                useLabelWrapper |-> useLabelWrapper,
                                useLabelAfter |-> useLabelAfter]) :
          /\ tokens' = out.toks
          /\ tests' = out.tests
    /\ source' = tokens
    /\ pc' = "done"
    /\ UNCHANGED <<module, via>>

\* md.render returns: the render's state object, with its tokens, is dropped
Return ==
    /\ pc = "done"
    /\ pc' = "idle"
    /\ via' = "none"
    /\ tokens' = <<>>
    /\ source' = <<>>
    /\ tests' = <<>>
    /\ UNCHANGED module

Parse(contents, maxInlines, maxDepth) ==
    \/ \E str \in contents : ParseParagraph(str, maxInlines)
    \/ ParseListOpen(maxInlines, maxDepth)
    \/ ParseItemClose
    \/ ParseItemOpen(maxInlines)
    \/ ParseListClose

\* documents of every shape, rendered through one instance
ShapeOptions == {NoOptions, PlainCustom}

ShapeContents == {Repeated, CheckedUpper, Malformed}

Next ==
    \/ \E options \in ShapeOptions : Register("md1", options)
    \/ Render("md1")
    \/ Parse(ShapeContents, MaxInlines, MaxDepth)
    \/ RunRule
    \/ Return

Spec == Init /\ [][Next]_vars

\* flat lists of one or two items, rendered through instances registered with every option set
OptionChoices == {NoOptions, OnlyEnabled, LabelAfter, PlainCustom, Tiptap}

OptionContents == {Unchecked, CheckedLower, CheckedUpper}

NextOptions ==
    \/ \E m \in Instances, options \in OptionChoices : Register(m, options)
    \/ \E m \in Instances : Render(m)
    \/ Parse(OptionContents, OptionInlines, OptionDepth)
    \/ RunRule
    \/ Return

SpecOptions == Init /\ [][NextOptions]_vars

(***************************************************************************)
(* Reading a rendered token stream.                                        *)
(***************************************************************************)
Done == pc = "done"

Inlines == {k \in 1..Len(tokens) : tokens[k].type = "inline"}

\* the html_inline children the rule put into tokens[k]
NumCheckboxes(k) ==
    Cardinality({n \in 1..Len(tokens[k].children) : tokens[k].children[n].type = "html_inline"})

Transformed(k) ==
    /\ tokens[k].type = "inline"
    /\ Len(tokens[k].children) > 0
    /\ tokens[k].children[1].type = "html_inline"

TransformedInlines == {k \in Inlines : Transformed(k)}

\* the innermost open token of the given type that encloses index k in the parsed stream, or 0
Enclosing(k, type) ==
    LET open == OpenAt(source, k)
        of == {n \in 1..Len(open) : source[open[n]].type = type}
    IN  IF of = {} THEN 0 ELSE open[CHOOSE n \in of : \A m \in of : m <= n]

ItemOf(k) == Enclosing(k, "list_item_open")

ListOf(k) == Enclosing(k, "bullet_list_open")

\* how many times word occurs in the class attribute of token
ClassCount(token, word) ==
    LET idx == attrIndex(token, "class") IN
    IF idx = 0 THEN 0
    ELSE Cardinality({n \in 1..Len(token.attrs[idx][2]) : token.attrs[idx][2][n] = word})

HasAttr(token, name, value) ==
    \E n \in 1..Len(token.attrs) : token.attrs[n] = <<name, <<value>>>>

IndexOf(seq, piece) ==
    IF \E n \in 1..Len(seq) : seq[n] = piece
    THEN CHOOSE n \in 1..Len(seq) : seq[n] = piece /\ \A m \in 1..(n - 1) : seq[m] # piece
    ELSE 0

\* the markup of the checkbox put into tokens[k]
Markup(k) == tokens[k].children[1].content

HasDisabled(markup) == " disabled " \in Range(markup)

HasChecked(markup) == "checked=\"\" " \in Range(markup)

HasLabel(markup) == "<label class=\"" \in Range(markup)

LabelFollowsInput(markup) == IndexOf(markup, "<label class=\"") > IndexOf(markup, "<input class=\"")

InputId(markup) == markup[IndexOf(markup, " id=\"") + 1]

LabelFor(markup) == markup[IndexOf(markup, "\" for=\"") + 1]

\* the inline token directly behind the list_item_open at li: the item's first paragraph
FirstParagraphInline(li) ==
    IF li + 2 <= Len(source) /\ source[li + 1].type = "paragraph_open" THEN li + 2 ELSE 0

ListItems == {li \in 1..Len(source) : source[li].type = "list_item_open"}

(***************************************************************************)
(* Claims.                                                                 *)
(***************************************************************************)
\* C1: after a pass, every list item of a bullet list whose first paragraph's inline text
\* begins with "[ ] ", "[x] " or "[X] " (and has a child) has a checkbox as the first child of
\* that inline token, wherever the item sits: also after a sibling item that holds a nested list.
C1_EveryTaskItemGetsCheckbox ==
    Done =>
        \A li \in ListItems :
            LET k == FirstParagraphInline(li) IN
            (/\ k # 0
             /\ ListOf(li) # 0
             /\ startsWithTodoMarkdown(source[k].content)
             /\ Len(source[k].children) > 0)
            => Transformed(k)

\* C2: a transformed inline token's content, and its text child's content, are the original
\* with the first 4 characters (the marker and the space behind it) removed.
C2_MarkerAndSpaceRemoved ==
    Done =>
        \A k \in TransformedInlines :
            /\ tokens[k].content = SubSeq(source[k].content, 5, Len(source[k].content))
            /\ tokens[k].children[2].content = SubSeq(source[k].content, 5, Len(source[k].content))

\* C3: a render through a registration emits the disabled attribute, the label wrapper and the
\* label position that this registration's own options set, whatever other registrations
\* were made before or after it.
C3_RenderFollowsOwnRegistration ==
    Done =>
        \A k \in TransformedInlines :
            LET own == FlagsAfter(DefaultFlags, rules[via].options) IN
            /\ HasDisabled(Markup(k)) = own.disableCheckboxes
            /\ HasLabel(Markup(k)) = own.useLabelWrapper
            /\ HasLabel(Markup(k)) => (LabelFollowsInput(Markup(k)) = own.useLabelAfter)

\* C4: with a single registration, an option left out takes its documented default:
\* label true, enabled false, labelAfter false.
C4_OmittedOptionsTakeDefaults ==
    (Done /\ Cardinality({m \in Instances : rules[m].registered}) = 1) =>
        \A k \in TransformedInlines :
            LET options == rules[via].options IN
            /\ HasLabel(Markup(k)) = Truthy(Coalesce(options.label, "true"))
            /\ HasDisabled(Markup(k)) = ~Truthy(Coalesce(options.enabled, "false"))
            /\ HasLabel(Markup(k)) =>
                  (LabelFollowsInput(Markup(k)) = Truthy(Coalesce(options.labelAfter, "false")))

\* C5: with label wrapping on, any two checkboxes of one pass carry different ids, and each
\* label's for is the id of its own checkbox.
C5_IdsUniqueInPass ==
    Done =>
        \A k \in TransformedInlines :
            HasLabel(Markup(k)) =>
                /\ LabelFor(Markup(k)) = InputId(Markup(k))
                /\ \A other \in TransformedInlines \ {k} :
                      HasLabel(Markup(other)) => InputId(Markup(other)) # InputId(Markup(k))

\* C6: after a pass the class attribute of a bullet_list_open holds the list class at most
\* once, and that of a list_item_open the item class at most once.
C6_ClassJoinedOnce ==
    Done =>
        \A n \in 1..Len(tokens) :
            /\ tokens[n].type = "bullet_list_open" =>
                  ClassCount(tokens[n], rules[via].classes.list) <= 1
            /\ tokens[n].type = "list_item_open" =>
                  ClassCount(tokens[n], rules[via].classes.item) <= 1

\* C7: an inline token in the second or a later paragraph of a list item is never
\* transformed, so a pass leaves at most one checkbox per list item.
C7_OnlyFirstParagraph ==
    Done =>
        \A k \in Inlines :
            (ItemOf(k) # 0 /\ \E first \in Inlines : first < k /\ ItemOf(first) = ItemOf(k))
            => ~Transformed(k)

\* C8: with tiptapCompatible = true a pass inserts no checkbox child; every matched item's
\* open token carries data-type="taskItem" and data-checked, and its list the list-type marker.
C8_TiptapEmitsAttributesOnly ==
    (Done /\ Truthy(rules[via].options.tiptapCompatible)) =>
        /\ \A k \in Inlines : NumCheckboxes(k) = 0
        /\ \A li \in ListItems :
              LET k == FirstParagraphInline(li) IN
              (k # 0 /\ startsWithTodoMarkdown(source[k].content)) =>
                  /\ HasAttr(tokens[li], "data-type", "taskItem")
                  /\ HasAttr(tokens[li], "data-checked",
                             IF source[k].content[2] = " " THEN "false" ELSE "true")
                  /\ HasAttr(tokens[ListOf(li)], "data-type", "taskList")

\* C9: each checkbox injected at k adds the item class to the innermost list_item_open that
\* encloses k and the list class to the innermost bullet_list_open that encloses k, and to
\* no other token: every token holds exactly the classes of the checkboxes it encloses so.
C9_ClassesGoToAncestors ==
    Done =>
        LET items == {<<k, ItemOf(k)>> : k \in TransformedInlines}
            lists == {<<k, ListOf(k)>> : k \in TransformedInlines}
        IN  /\ \A at \in items \cup lists : at[2] # 0
            /\ \A n \in 1..Len(tokens) :
                  /\ ClassCount(tokens[n], rules[via].classes.item)
                        = Cardinality({at \in items : at[2] = n})
                  /\ ClassCount(tokens[n], rules[via].classes.list)
                        = Cardinality({at \in lists : at[2] = n})

\* a checkbox was injected below a list that follows a closed bullet list and below a nested list
C9_Witness ==
    /\ Done
    /\ \E k \in TransformedInlines : \E n \in 1..k : source[n].type = "bullet_list_close"
    /\ \E k \in TransformedInlines : Len(OpenAt(source, k)) >= 4

\* C10: in one pass no inline token is transformed twice, although the inline token of a
\* nested item is tested by the scan of its enclosing item and by the scan of its own item:
\* it holds at most one checkbox, and its content is the original less one marker.
C10_TransformedOnce ==
    Done =>
        \A k \in Inlines :
            /\ NumCheckboxes(k) <= 1
            /\ Len(tokens[k].children) = Len(source[k].children) + NumCheckboxes(k)
            /\ IF Transformed(k)
               THEN /\ SubSeq(source[k].content, 1, 3) \o tokens[k].content = source[k].content
                    /\ SubSeq(source[k].content, 1, 3) \o tokens[k].children[2].content
                          = source[k].children[1].content
               ELSE tokens[k] = source[k]

\* the inline token "[ ] [ ] x" of a nested item was tested twice and holds one checkbox
C10_Witness ==
    /\ Done
    /\ \E k \in TransformedInlines :
          /\ tests[k] = 2
          /\ source[k].content = Repeated
          /\ Len(OpenAt(source, k)) >= 4

====
